---- MODULE Spec2Model ----
(***************************************************************************)
(* Order book on a spreadsheet: src/sheets_client.py (SheetsClient) and    *)
(* src/app.py (the Flask handlers, the rate limiter, the de-duplication).  *)
(*                                                                         *)
(* Text is modelled as sequences of one-character strings, so that the     *)
(* normalisations (strip, lower, replace) are computed and not assumed.    *)
(* A worksheet is the sequence of its data rows (the header row is row 1   *)
(* of the sheet and is not stored): data index i is sheet row i + 1.       *)
(***************************************************************************)
EXTENDS Integers, Sequences, FiniteSets, TLC

VARIABLES
    sheet,      \* worksheet "orders": the data rows (cells A..G)
    dispatch,   \* worksheet "dispatch": the data rows
    cache,      \* SheetsClient._cache: key -> [value, ts]
    now,        \* time.time(), in seconds
    last,       \* the write that ran last, with the orders sheet it found
    undo,       \* the snapshot the caller keeps for /api/undo_delete_order
    recent,     \* app._recent_submissions: deque of <<ts, fingerprint>>
    rate,       \* app._rate_limit: key -> list of admission times
    sheets,     \* app.sheets: TRUE when SheetsClient() was built, FALSE for None
    response,   \* what the last HTTP handler returned
    reqs,       \* the /submit requests in flight (interleaved execution)
    call,       \* the last call to the external store: attempts made and outcome
    limited,    \* the last call of rate_limited: its key, its time, what it returned
    admitted,   \* history: key -> the times of all the calls rate_limited admitted
    written,    \* history: <<time, fingerprint>> of every /submit that wrote orders
    dropped     \* history: <<time, fingerprint>> of the last /submit dropped as a repeat

vars == <<sheet, dispatch, cache, now, last, undo, recent, rate, sheets,
          response, reqs, call, limited, admitted, written, dropped>>

-----------------------------------------------------------------------------
(* Bounds of the model *)

MaxRows == 2        \* data rows the orders sheet may grow to
SerialRows == 1     \* data rows whose serial (column A) is filled in advance
MaxDispatch == 2    \* rows the dispatch sheet may grow to
MaxNow == 20        \* the clock stops here

-----------------------------------------------------------------------------
(* Text *)

E == << >>                       \* the empty string ""

RECURSIVE lstrip(_)
lstrip(s) == IF s # E /\ Head(s) = " " THEN lstrip(Tail(s)) ELSE s

RECURSIVE rstrip(_)
rstrip(s) == IF s # E /\ s[Len(s)] = " " THEN rstrip(SubSeq(s, 1, Len(s) - 1)) ELSE s

\* str.strip()
strip(s) == rstrip(lstrip(s))

lower_char(c) ==
    CASE c = "A" -> "a" [] c = "B" -> "b" [] c = "W" -> "w" [] c = "G" -> "g"
      [] OTHER -> c

\* str.lower()
lower(s) == [i \in 1..Len(s) |-> lower_char(s[i])]

\* str.replace(" ", "")
remove_spaces(s) == SelectSeq(s, LAMBDA c : c # " ")

\* str.replace("&", "and")
RECURSIVE replace_amp(_)
replace_amp(s) ==
    IF s = E THEN E
    ELSE (IF Head(s) = "&" THEN <<"a", "n", "d">> ELSE <<Head(s)>>) \o replace_amp(Tail(s))

\* SheetsClient._norm
norm(s) == remove_spaces(lower(strip(s)))

\* SheetsClient._norm_company
norm_company(s) == remove_spaces(replace_amp(lower(strip(s))))

digit_value(c) ==
    CASE c = "0" -> 0 [] c = "1" -> 1 [] c = "2" -> 2 [] c = "3" -> 3 [] c = "4" -> 4
      [] c = "5" -> 5 [] c = "6" -> 6 [] c = "7" -> 7 [] c = "8" -> 8 [] c = "9" -> 9
      [] OTHER -> -1

is_number(s) == s # E /\ \A i \in 1..Len(s) : digit_value(s[i]) >= 0

RECURSIVE number_value(_)
number_value(s) ==
    IF s = E THEN 0 ELSE 10 * number_value(SubSeq(s, 1, Len(s) - 1)) + digit_value(s[Len(s)])

\* int(float(cell)) guarded by try/except: the value, or the fallback
int_or(s, fallback) == IF is_number(strip(s)) THEN number_value(strip(s)) ELSE fallback

digit_char(d) == <<"0", "1", "2", "3", "4", "5", "6", "7", "8", "9">>[d + 1]

\* the cell text of a number written with value_input_option="USER_ENTERED"
RECURSIVE number_text(_)
number_text(n) == IF n < 10 THEN <<digit_char(n)>> ELSE number_text(n \div 10) \o <<digit_char(n % 10)>>

-----------------------------------------------------------------------------
(* The worksheets *)

Today == <<"d">>                 \* datetime.date.today().isoformat()

Fields == {"date", "company", "product", "brand", "quantity", "price"}

BlankFields == [f \in Fields |-> E]

EmptyRow == [serial |-> E] @@ BlankFields

is_empty_row(r) == \A f \in DOMAIN r : r[f] = E

\* Worksheet.get_all_values(): the rows up to the last one that holds a value
RECURSIVE get_all_values(_)
get_all_values(rows) ==
    IF rows # << >> /\ is_empty_row(rows[Len(rows)])
    THEN get_all_values(SubSeq(rows, 1, Len(rows) - 1))
    ELSE rows

\* Worksheet.update(range of one row, values): the cells named are overwritten,
\* the others (the serial in column A among them) are kept
update_cells(rows, i, values) ==
    LET padded == rows \o [k \in 1..(i - Len(rows)) |-> EmptyRow]
    IN  get_all_values([padded EXCEPT ![i] = values @@ padded[i]])


\* the cells B..G (or D..G) an operation writes
order_cells(date, company, product, brand, quantity, price) ==
    [date |-> date, company |-> company, product |-> product, brand |-> brand,
     quantity |-> quantity, price |-> price]

\* a plain append: the index past the last row, whatever rows are blank
first_blank_date_append(all_vals) == Len(all_vals) + 1

\* the first data index whose Date cell is blank, or the index past the last row
first_blank_date(all_vals) ==
    IF \E i \in 1..Len(all_vals) : strip(all_vals[i].date) = E
    THEN CHOOSE i \in 1..Len(all_vals) :
            /\ strip(all_vals[i].date) = E
            /\ \A j \in 1..(i - 1) : strip(all_vals[j].date) # E
    ELSE Len(all_vals) + 1

\* SheetsClient.add_order, the write it makes given the rows it read
add_order_write(rows, target, company, product, quantity, price, brand) ==
    update_cells(rows, target,
        order_cells(Today, company, product, brand, number_text(quantity), price))

\* SheetsClient.add_order run without interruption: the sheet it leaves
add_order(rows, company, product, quantity, price, brand) ==
    add_order_write(rows, first_blank_date(get_all_values(rows)),
                    company, product, quantity, price, brand)

\* SheetsClient.update_order_row: the sheet it leaves
update_order_row(rows, row, product, brand, quantity, price) ==
    update_cells(rows, row,
        [product |-> product, brand |-> brand,
         quantity |-> number_text(quantity), price |-> price])

\* SheetsClient.delete_order_row: the sheet it leaves
delete_order_row(rows, row) == update_cells(rows, row, BlankFields)

\* dict.get(key, default)
dict_get(d, key, default) == IF key \in DOMAIN d THEN d[key] ELSE default

\* a restore that looks the date up under a key the snapshot does not have
restore_order_row_no_date(rows, row, data) ==
    update_cells(rows, row,
        order_cells(dict_get(data, "Date", E), dict_get(data, "company", E),
                    dict_get(data, "product", E), dict_get(data, "brand", E),
                    dict_get(data, "quantity", E), dict_get(data, "price", E)))

\* SheetsClient.restore_order_row: the sheet it leaves
restore_order_row(rows, row, data) ==
    update_cells(rows, row,
        order_cells(dict_get(data, "date", E), dict_get(data, "company", E),
                    dict_get(data, "product", E), dict_get(data, "brand", E),
                    dict_get(data, "quantity", E), dict_get(data, "price", E)))

\* SheetsClient.add_dispatch: the dispatch sheet it leaves
add_dispatch(rows, company, product, quantity, order_number) ==
    Append(rows, [date |-> Today, company |-> company, product |-> product,
                  quantity |-> number_text(quantity), serial |-> order_number])

-----------------------------------------------------------------------------
(* The cache *)

cache_ttl == 15

NoCache == [k \in {} |-> E]

cache_hit(c, key, t) == key \in DOMAIN c /\ t - c[key].ts < cache_ttl

\* SheetsClient._cached: the value returned
cached_value(c, key, t, fresh) == IF cache_hit(c, key, t) THEN c[key].value ELSE fresh

\* SheetsClient._cached: the cache left
cached_store(c, key, t, fresh) ==
    IF cache_hit(c, key, t) THEN c ELSE (key :> [value |-> fresh, ts |-> t]) @@ c

\* SheetsClient._invalidate_cache
invalidate_cache(c) == NoCache

-----------------------------------------------------------------------------
(* Reconciliation *)

\* SheetsClient._dispatch_map: (serial, normalised product) -> total dispatched
RECURSIVE dispatch_map(_)
dispatch_map(rows) ==
    IF rows = << >> THEN [k \in {} |-> 0]
    ELSE LET d == dispatch_map(SubSeq(rows, 1, Len(rows) - 1))
             r == rows[Len(rows)]
             serial == strip(r.serial)
             product == norm(r.product)
             key == <<serial, product>>
         IN  IF ~is_number(strip(r.quantity)) THEN d
             ELSE IF serial = E \/ product = E THEN d
             ELSE (key :> (dict_get(d, key, 0) + number_value(strip(r.quantity)))) @@ d

\* one turn of the loop of get_orders_by_party: << >> when the row is skipped
party_entry(r, d, company) ==
    LET serial == strip(r.serial)
        party == strip(r.company)
        ordered == int_or(r.quantity, 0)
        dispatched == dict_get(d, <<serial, norm(r.product)>>, 0)
        remaining == ordered - dispatched
    IN  IF norm_company(party) # norm_company(company) THEN << >>
        ELSE IF remaining <= 0 THEN << >>
        ELSE <<[company |-> party, product |-> r.product, serial |-> serial,
                ordered |-> ordered, dispatched |-> dispatched,
                remaining |-> remaining, price |-> r.price]>>

\* SheetsClient.get_orders_by_party over the rows _cached returned
RECURSIVE get_orders_by_party(_, _, _)
get_orders_by_party(rows, d, company) ==
    IF rows = << >> THEN << >>
    ELSE party_entry(Head(rows), d, company) \o get_orders_by_party(Tail(rows), d, company)

\* one turn of the loop of get_orders_by_product
product_entry(r, d, product) ==
    LET target == norm(product)
        serial == strip(r.serial)
        ordered == int_or(r.quantity, 0)
        dispatched == dict_get(d, <<serial, target>>, 0)
        remaining == ordered - dispatched
    IN  IF norm(r.product) # target THEN << >>
        ELSE IF remaining <= 0 THEN << >>
        ELSE <<[company |-> r.company, product |-> r.product, serial |-> serial,
                ordered |-> ordered, dispatched |-> dispatched,
                remaining |-> remaining, price |-> r.price]>>

\* SheetsClient.get_orders_by_product over the rows _cached returned
RECURSIVE get_orders_by_product(_, _, _)
get_orders_by_product(rows, d, product) ==
    IF rows = << >> THEN << >>
    ELSE product_entry(Head(rows), d, product) \o get_orders_by_product(Tail(rows), d, product)


\* str.split(","): the pieces between the commas
RECURSIVE split_commas(_)
split_commas(s) ==
    IF \A i \in 1..Len(s) : s[i] # ","
    THEN <<s>>
    ELSE LET i == CHOOSE k \in 1..Len(s) : s[k] = "," /\ \A j \in 1..(k - 1) : s[j] # ","
         IN  <<SubSeq(s, 1, i - 1)>> \o split_commas(SubSeq(s, i + 1, Len(s)))

\* [p for p in filter.split(",") if p]
filter_tokens(f) == SelectSeq(split_commas(f), LAMBDA p : p # E)

\* p in s, for strings
is_substring(p, s) == \E i \in 0..(Len(s) - Len(p)) : SubSeq(s, i + 1, i + Len(p)) = p

\* any(p in name.lower() for p in tokens), when there are tokens
passes_filter(tokens, name) ==
    tokens = << >> \/ \E k \in 1..Len(tokens) : is_substring(tokens[k], lower(name))

\* one turn of the loop of get_pivot_data: << >> when the row is skipped
pivot_entry(r, d, product_filter, party_filter) ==
    LET serial == r.serial
        company == strip(r.company)
        ordered == int_or(r.quantity, 0)
        dispatched == dict_get(d, <<serial, norm(r.product)>>, 0)
        pending == ordered - dispatched
    IN  IF strip(r.date) = E THEN << >>
        ELSE IF ~passes_filter(filter_tokens(lower(product_filter)), r.product) THEN << >>
        ELSE IF ~passes_filter(filter_tokens(lower(party_filter)), company) THEN << >>
        ELSE IF pending <= 0 THEN << >>
        ELSE <<[company |-> company, product |-> r.product, pending |-> pending]>>

\* the dictionary "data" of get_pivot_data: <<company, product>> -> summed pending
RECURSIVE pivot_data(_, _, _, _)
pivot_data(rows, d, product_filter, party_filter) ==
    IF rows = << >> THEN [k \in {} |-> 0]
    ELSE LET data == pivot_data(SubSeq(rows, 1, Len(rows) - 1), d, product_filter, party_filter)
             e == pivot_entry(rows[Len(rows)], d, product_filter, party_filter)
         IN  IF e = << >> THEN data
             ELSE LET key == <<e[1].company, e[1].product>>
                  IN  (key :> (dict_get(data, key, 0) + e[1].pending)) @@ data

char_code(c) ==
    CASE c = " " -> 32 [] c = "&" -> 38 [] c = "," -> 44 [] c = "." -> 46
      [] c = "A" -> 65 [] c = "B" -> 66 [] c = "G" -> 71 [] c = "W" -> 87
      [] c = "a" -> 97 [] c = "b" -> 98 [] c = "d" -> 100 [] c = "g" -> 103
      [] c = "n" -> 110 [] c = "w" -> 119 [] c = "x" -> 120
      [] OTHER -> 48 + digit_value(c)

\* s < t, for strings
RECURSIVE str_less(_, _)
str_less(s, t) ==
    IF t = E THEN FALSE
    ELSE IF s = E THEN TRUE
    ELSE IF Head(s) # Head(t) THEN char_code(Head(s)) < char_code(Head(t))
    ELSE str_less(Tail(s), Tail(t))

\* sorted(set of strings)
RECURSIVE sorted(_)
sorted(S) ==
    IF S = {} THEN << >>
    ELSE LET m == CHOOSE x \in S : \A y \in S \ {x} : str_less(x, y)
         IN  <<m>> \o sorted(S \ {m})

\* SheetsClient.get_pivot_data over the rows _cached returned
get_pivot_data(rows, d, product_filter, party_filter) ==
    LET data == pivot_data(rows, d, product_filter, party_filter)
        products == sorted({k[2] : k \in DOMAIN data})
        parties == sorted({k[1] : k \in DOMAIN data})
    IN  [products |-> products,
         parties |-> parties,
         pivot |-> [i \in 1..Len(parties) |->
                      [j \in 1..Len(products) |->
                          dict_get(data, <<parties[i], products[j]>>, 0)]]]


-----------------------------------------------------------------------------
(* Inputs *)

Companies == {<<"A", "&", "B">>}
Products == {<<"W">>, <<"G">>}
Brands == {<<"x">>}
Prices == {<<"9">>}
Quantities == {2}
DispatchQuantities == {1, 2}
DispatchProducts == {<<"w">>}
Serials == {number_text(i) : i \in 1..SerialRows}
PartyQueries == {E, <<"a", " ", "a", "n", "d", " ", "b">>, <<"G">>}
ProductQueries == {<<" ", "w">>, <<"G">>}
PivotFilters == {E, <<"w", ",", "x">>}
RowNumbers == 1..MaxRows

TickStep == 10

NoUndo == [row |-> 0, data |-> BlankFields]

row_fields(r) == [f \in Fields |-> r[f]]

-----------------------------------------------------------------------------
(* The operations of SheetsClient, each run without interruption *)

Untouched == UNCHANGED <<recent, rate, sheets, response, reqs, call, limited, admitted, written, dropped>>

Init ==
    /\ sheet = [i \in 1..SerialRows |-> [serial |-> number_text(i)] @@ BlankFields]
    /\ dispatch = << >>
    /\ cache = NoCache
    /\ now = 0
    /\ last = [op |-> "init", row |-> 0, pre |-> << >>, args |-> << >>]
    /\ undo = NoUndo
    /\ recent = << >>
    /\ rate = [k \in {} |-> << >>]
    /\ sheets = TRUE
    /\ response = [endpoint |-> "none", status |-> 0, body |-> "none"]
    /\ reqs = << >>
    /\ call = [op |-> "none", fails |-> 0, attempts |-> 0, outcome |-> "none"]
    /\ limited = [key |-> "none", t |-> 0, result |-> FALSE]
    /\ admitted = [k \in {} |-> << >>]
    /\ written = << >>
    /\ dropped = << >>

AddOrder(company, product, quantity, price, brand) ==
    /\ first_blank_date(get_all_values(sheet)) <= MaxRows
    /\ sheet' = add_order(sheet, company, product, quantity, price, brand)
    /\ last' = [op |-> "add_order", row |-> first_blank_date(get_all_values(sheet)),
                pre |-> sheet,
                args |-> order_cells(Today, company, product, brand,
                                     number_text(quantity), price)]
    /\ UNCHANGED <<dispatch, cache, now, undo>>
    /\ Untouched

UpdateOrderRow(row, product, brand, quantity, price) ==
    /\ sheet' = update_order_row(sheet, row, product, brand, quantity, price)
    /\ cache' = invalidate_cache(cache)
    /\ last' = [op |-> "update_order_row", row |-> row, pre |-> << >>, args |-> << >>]
    /\ UNCHANGED <<dispatch, now, undo>>
    /\ Untouched

\* the caller keeps the fields it was shown for the row, for a later undo
DeleteOrderRow(row) ==
    /\ row <= Len(sheet)
    /\ sheet' = delete_order_row(sheet, row)
    /\ cache' = invalidate_cache(cache)
    /\ undo' = [row |-> row, data |-> row_fields(sheet[row])]
    /\ last' = [op |-> "delete_order_row", row |-> row, pre |-> sheet, args |-> << >>]
    /\ UNCHANGED <<dispatch, now>>
    /\ Untouched

\* the undo: the row and the fields kept at the delete; "pre" is the sheet
\* before that delete when the restore follows it at once
RestoreOrderRow ==
    /\ undo # NoUndo
    /\ sheet' = restore_order_row(sheet, undo.row, undo.data)
    /\ cache' = invalidate_cache(cache)
    /\ undo' = NoUndo
    /\ last' = [op |-> IF last.op = "delete_order_row" /\ last.row = undo.row
                       THEN "restore_after_delete" ELSE "restore_order_row",
                row |-> undo.row,
                pre |-> IF last.op = "delete_order_row" /\ last.row = undo.row
                        THEN last.pre ELSE sheet,
                args |-> << >>]
    /\ UNCHANGED <<dispatch, now>>
    /\ Untouched

AddDispatch(company, product, quantity, order_number) ==
    /\ Len(dispatch) < MaxDispatch
    /\ dispatch' = add_dispatch(dispatch, company, product, quantity, order_number)
    /\ cache' = invalidate_cache(cache)
    /\ last' = [op |-> "add_dispatch", row |-> 0, pre |-> << >>, args |-> << >>]
    /\ UNCHANGED <<sheet, now, undo>>
    /\ Untouched

\* what a view does to the state: the read of the order rows goes through _cached
ReadOrders ==
    /\ cache' = cached_store(cache, "orders_rows", now, get_all_values(sheet))
    /\ UNCHANGED <<sheet, dispatch, now, last, undo>>
    /\ Untouched

GetOrdersByParty == ReadOrders

GetOrdersByProduct == ReadOrders

GetPivotData == ReadOrders

\* time.time() moves on by step seconds, up to the bound
Advance(step, bound) ==
    /\ now + step <= bound
    /\ now' = now + step
    /\ UNCHANGED <<sheet, dispatch, cache, last, undo>>
    /\ Untouched

Tick == Advance(TickStep, MaxNow)

Next ==
    \/ \E c \in Companies, p \in Products, q \in Quantities, pr \in Prices, b \in Brands :
          AddOrder(c, p, q, pr, b)
    \/ \E r \in RowNumbers, p \in Products, b \in Brands, q \in Quantities, pr \in Prices :
          UpdateOrderRow(r, p, b, q, pr)
    \/ \E r \in RowNumbers : DeleteOrderRow(r)
    \/ RestoreOrderRow
    \/ \E c \in Companies, p \in DispatchProducts, q \in DispatchQuantities, n \in Serials :
          AddDispatch(c, p, q, n)
    \/ GetOrdersByParty
    \/ GetOrdersByProduct
    \/ GetPivotData
    \/ Tick

Spec == Init /\ [][Next]_vars

\* the writes to the orders sheet alone, with no dispatch, no read and no clock
NextOrders ==
    \/ \E c \in Companies, p \in Products, q \in Quantities, pr \in Prices, b \in Brands :
          AddOrder(c, p, q, pr, b)
    \/ \E r \in RowNumbers, p \in Products, b \in Brands, q \in Quantities, pr \in Prices :
          UpdateOrderRow(r, p, b, q, pr)
    \/ \E r \in RowNumbers : DeleteOrderRow(r)
    \/ RestoreOrderRow

SpecOrders == Init /\ [][NextOrders]_vars

\* orders added, deleted and restored while dispatches are recorded, with no read
\* and no clock
NextDeleteRestore ==
    \/ \E c \in Companies, p \in Products, q \in Quantities, pr \in Prices, b \in Brands :
          AddOrder(c, p, q, pr, b)
    \/ \E r \in RowNumbers : DeleteOrderRow(r)
    \/ RestoreOrderRow
    \/ \E c \in Companies, p \in DispatchProducts, q \in DispatchQuantities, n \in Serials :
          AddDispatch(c, p, q, n)

SpecDeleteRestore == Init /\ [][NextDeleteRestore]_vars



-----------------------------------------------------------------------------
(* What the claims speak of *)

\* the rows a pending view reads now: self._cached("orders_rows", ...)
RowsRead == cached_value(cache, "orders_rows", now, get_all_values(sheet))

\* the dispatch map a pending view builds now
DispatchNow == dispatch_map(dispatch)

is_live(r) == strip(r.date) # E

\* D: the sum of the quantities of the dispatch rows with the key of row r
RECURSIVE dispatch_rows_total(_, _)
dispatch_rows_total(I, r) ==
    IF I = {} THEN 0
    ELSE LET i == CHOOSE k \in I : TRUE
             same == /\ strip(dispatch[i].serial) = strip(r.serial)
                     /\ norm(dispatch[i].product) = norm(r.product)
         IN  (IF same THEN number_value(dispatch[i].quantity) ELSE 0)
                + dispatch_rows_total(I \ {i}, r)

Ordered(r) == int_or(r.quantity, 0)

Remaining(r) == Ordered(r) - dispatch_rows_total(DOMAIN dispatch, r)

\* the entry of row i of the sheet in each pending view, << >> when it has none
PartyViewOf(i, company) ==
    IF i <= Len(RowsRead) THEN party_entry(RowsRead[i], DispatchNow, company) ELSE << >>

ProductViewOf(i, product) ==
    IF i <= Len(RowsRead) THEN product_entry(RowsRead[i], DispatchNow, product) ELSE << >>

PivotViewOf(i, product_filter, party_filter) ==
    IF i <= Len(RowsRead)
    THEN pivot_entry(RowsRead[i], DispatchNow, product_filter, party_filter)
    ELSE << >>

\* C1: every live order row with ordered O and dispatch total D is in each pending
\* view (asked for its own company, its own product, or unfiltered) exactly when
\* O - D > 0, and then with remaining = O - D.
C1_RemainingInViews ==
    \A i \in DOMAIN sheet :
        is_live(sheet[i]) =>
            LET r == sheet[i]
                byParty == PartyViewOf(i, r.company)
                byProduct == ProductViewOf(i, r.product)
                byPivot == PivotViewOf(i, E, E)
            IN  /\ (byParty # << >>) <=> (Remaining(r) > 0)
                /\ (byProduct # << >>) <=> (Remaining(r) > 0)
                /\ (byPivot # << >>) <=> (Remaining(r) > 0)
                /\ byParty # << >> => byParty[1].remaining = Remaining(r)
                /\ byProduct # << >> => byProduct[1].remaining = Remaining(r)
                /\ byPivot # << >> => byPivot[1].pending = Remaining(r)

\* C2: after a write, a read of the order rows returns the rows as written: the
\* cache never answers with rows from before a write.
C2_ReadReflectsWrites == RowsRead = get_all_values(sheet)

\* C10: an order row with a blank date has no entry in any pending view.
C10_BlankDateExcluded ==
    \A i \in DOMAIN sheet :
        ~is_live(sheet[i]) =>
            /\ \A c \in PartyQueries : PartyViewOf(i, c) = << >>
            /\ \A p \in ProductQueries : ProductViewOf(i, p) = << >>
            /\ \A pf \in PivotFilters, cf \in PivotFilters : PivotViewOf(i, pf, cf) = << >>


\* C4: a restore that follows the delete of a live row R at once, with the fields
\* kept at the delete, leaves row R with the fields and the serial it had before
\* the delete, and with the same entry in every pending view.
C4_DeleteRestoreRoundTrip ==
    (last.op = "restore_after_delete" /\ is_live(last.pre[last.row])) =>
        LET i == last.row
            before == last.pre[i]
        IN  /\ i <= Len(sheet)
            /\ sheet[i] = before
            /\ \A c \in PartyQueries \cup {before.company} :
                  PartyViewOf(i, c) = party_entry(before, DispatchNow, c)
            /\ \A p \in ProductQueries \cup {before.product} :
                  ProductViewOf(i, p) = product_entry(before, DispatchNow, p)
            /\ \A pf \in PivotFilters, cf \in PivotFilters :
                  PivotViewOf(i, pf, cf) = pivot_entry(before, DispatchNow, pf, cf)

\* C4 witness: a live row with a pending entry was deleted and restored at once
C4_Witness ==
    /\ last.op = "restore_after_delete"
    /\ is_live(last.pre[last.row])
    /\ PartyViewOf(last.row, last.pre[last.row].company) # << >>
    /\ dispatch # << >>

\* C5: add_order writes the order's six fields into the first row whose date is
\* blank, or into the row past the last one when no date is blank; the serial of
\* that row and every other row are as they were.
C5_AddOrderFirstBlank ==
    last.op = "add_order" =>
        LET pre == last.pre
            t == last.row
        IN  /\ \A j \in 1..Len(pre) : j < t => is_live(pre[j])
            /\ IF t <= Len(pre) THEN ~is_live(pre[t]) ELSE t = Len(pre) + 1
            /\ Len(sheet) = IF t <= Len(pre) THEN Len(pre) ELSE t
            /\ row_fields(sheet[t]) = last.args
            /\ sheet[t].serial = IF t <= Len(pre) THEN pre[t].serial ELSE E
            /\ \A j \in 1..Len(pre) : j # t => sheet[j] = pre[j]

\* C5 witness: the order went into the gap a soft delete left before a later row
C5_Witness ==
    /\ last.op = "add_order"
    /\ last.row < Len(last.pre)
    /\ undo.row = last.row
    /\ is_live(sheet[last.row])


-----------------------------------------------------------------------------
(* The rate limiter of app.py *)

\* RATE_LIMIT is 30 in app.py; the model runs the limiter with a smaller limit so
\* that the limit is reached and passed within the bounds
RATE_LIMIT == 3
WINDOW == 60
RateTick == 30      \* the clock step of the rate limiter's runs
MaxRateNow == 90    \* their clock stops here

Keys == {"pivot", "other"}

\* _rate_limit[key] of a defaultdict(list)
rate_get(r, key) == dict_get(r, key, << >>)

\* [t for t in window if now - t < WINDOW]
rate_window(r, key, t) == SelectSeq(rate_get(r, key), LAMBDA u : t - u < WINDOW)

\* rate_limited(key): what it returns
rate_limited(r, key, t) == Len(rate_window(r, key, t)) >= RATE_LIMIT

\* a limiter that records the call before it tests the limit
rate_after_counting_rejected(r, key, t) ==
    (key :> Append(rate_window(r, key, t), t)) @@ r

\* rate_limited(key): _rate_limit after the call
rate_after(r, key, t) ==
    LET kept == rate_window(r, key, t)
    IN  (key :> (IF Len(kept) >= RATE_LIMIT THEN kept ELSE Append(kept, t))) @@ r

\* a call of rate_limited(key)
RateLimited(key) ==
    /\ rate' = rate_after(rate, key, now)
    /\ limited' = [key |-> key, t |-> now, result |-> rate_limited(rate, key, now)]
    /\ admitted' = IF rate_limited(rate, key, now) THEN admitted
                   ELSE (key :> Append(dict_get(admitted, key, << >>), now)) @@ admitted
    /\ UNCHANGED <<sheet, dispatch, cache, now, last, undo, recent, sheets, response,
                   reqs, call, written, dropped>>

RateAdvance ==
    /\ now + RateTick <= MaxRateNow
    /\ now' = now + RateTick
    /\ UNCHANGED <<sheet, dispatch, cache, last, undo, recent, rate, sheets, response,
                   reqs, call, limited, admitted, written, dropped>>

NextRate ==
    \/ \E k \in Keys : RateLimited(k)
    \/ RateAdvance

SpecRate == Init /\ [][NextRate]_vars

\* the calls for the key that were admitted before the last call and less than
\* WINDOW seconds before it
AdmittedBeforeLast ==
    LET all == dict_get(admitted, limited.key, << >>)
        before == IF limited.result THEN all ELSE SubSeq(all, 1, Len(all) - 1)
    IN  Cardinality({i \in DOMAIN before : limited.t - before[i] < WINDOW})

\* C6: a call of rate_limited(key) returns True exactly when RATE_LIMIT calls for
\* that key were admitted in the WINDOW seconds before it; calls that were
\* rejected and calls for other keys are not counted.
C6_RateLimit ==
    limited.key # "none" =>
        /\ limited.result <=> (AdmittedBeforeLast >= RATE_LIMIT)
        /\ \A k \in DOMAIN admitted : \A t \in 0..MaxRateNow :
              Cardinality({i \in DOMAIN admitted[k] :
                              admitted[k][i] <= t /\ t - admitted[k][i] < WINDOW}) <= RATE_LIMIT

\* C6 witness: a call is rejected at a time when earlier admissions of its key
\* have left the window, while the other key has admissions of its own
C6_Witness ==
    /\ limited.key = "pivot"
    /\ limited.result
    /\ \E i \in DOMAIN admitted["pivot"] : limited.t - admitted["pivot"][i] >= WINDOW
    /\ "other" \in DOMAIN admitted


-----------------------------------------------------------------------------
(* POST /submit *)

DEDUP_WINDOW == 5

\* _recent_submissions is a deque(maxlen=200); the model runs it with a smaller
\* maxlen so that the deque fills within the bounds
RecentMaxLen == 2
MaxSubmitRows == 4  \* order rows the /submit runs may fill
SubmitTick == 3     \* the clock step of the /submit runs
MaxSubmitNow == 6   \* their clock stops here

FormCompanies == {<<" ", "A", "&", "B">>, E}

\* the fields of one orders[idx] group of the form, as text
FormLines ==
    {[product |-> <<"W">>, brand |-> <<"x">>, quantity |-> <<"2">>, price |-> <<"9">>],
     [product |-> <<"G", " ">>, brand |-> <<"x">>, quantity |-> <<"2">>, price |-> <<"9">>],
     [product |-> <<"W">>, brand |-> <<"x">>, quantity |-> <<"0">>, price |-> <<"9">>]}

Forms == {<<a>> : a \in FormLines} \cup {<<a, b>> : a \in FormLines, b \in FormLines}

\* round(price / 1.05, 2), the price being held in hundredths
strip_gst(hundredths) == (hundredths * 200 + 105) \div 210

\* one turn of the loop that builds order_lines: << >> when the line is dropped;
\* a line is <<product, brand, qty, price in hundredths>>
parse_line(f, includes_gst) ==
    LET product == strip(f.product)
        brand == strip(f.brand)
        qty == strip(f.quantity)
        price == strip(f.price)
    IN  IF product = E \/ qty = E \/ price = E THEN << >>
        ELSE IF ~is_number(qty) \/ ~is_number(price) THEN << >>
        ELSE IF number_value(qty) <= 0 THEN << >>
        ELSE <<<<product, brand, number_value(qty),
                 IF includes_gst THEN strip_gst(100 * number_value(price))
                 ELSE 100 * number_value(price)>>>>

RECURSIVE parse_form(_, _)
parse_form(form, includes_gst) ==
    IF form = << >> THEN << >>
    ELSE parse_line(Head(form), includes_gst) \o parse_form(Tail(form), includes_gst)

\* a < b for the tuples (product, brand, qty, price)
line_less(a, b) ==
    IF a[1] # b[1] THEN str_less(a[1], b[1])
    ELSE IF a[2] # b[2] THEN str_less(a[2], b[2])
    ELSE IF a[3] # b[3] THEN a[3] < b[3]
    ELSE a[4] < b[4]

RECURSIVE insert_line(_, _)
insert_line(x, sortedLines) ==
    IF sortedLines = << >> THEN <<x>>
    ELSE IF line_less(x, Head(sortedLines)) THEN <<x>> \o sortedLines
    ELSE <<Head(sortedLines)>> \o insert_line(x, Tail(sortedLines))

\* sorted(order_lines)
RECURSIVE sort_lines(_)
sort_lines(lines) ==
    IF lines = << >> THEN << >> ELSE insert_line(Head(lines), sort_lines(Tail(lines)))

\* the fingerprint: sha256 of repr((company, tuple(sorted(order_lines)))), taken
\* to be as distinct as what it hashes
fingerprint(company, order_lines) == <<company, sort_lines(order_lines)>>

\* a scan that takes any earlier entry with the fingerprint, whatever its age
is_duplicate_any_age(dq, fp, t) == \E i \in DOMAIN dq : dq[i][2] = fp

\* the scan of _recent_submissions for the fingerprint within the window
is_duplicate(dq, fp, t) ==
    \E i \in DOMAIN dq : dq[i][2] = fp /\ t - dq[i][1] < DEDUP_WINDOW

\* deque.append on a deque with a maxlen
deque_append(dq, x) == IF Len(dq) >= RecentMaxLen THEN Append(Tail(dq), x) ELSE Append(dq, x)

\* the text of the price handed to add_order
price_text(hundredths) ==
    IF hundredths % 100 = 0 THEN number_text(hundredths \div 100)
    ELSE number_text(hundredths \div 100)
            \o <<".", digit_char((hundredths % 100) \div 10), digit_char(hundredths % 10)>>

\* the loop of sheets.add_order calls over order_lines
RECURSIVE write_lines(_, _, _)
write_lines(rows, company, lines) ==
    IF lines = << >> THEN rows
    ELSE write_lines(
            add_order(rows, company, Head(lines)[1], Head(lines)[3],
                      price_text(Head(lines)[4]), Head(lines)[2]),
            company, Tail(lines))

live_rows(rows) == Cardinality({i \in DOMAIN rows : strip(rows[i].date) # E})

Redirect(flash) == [endpoint |-> "/submit", status |-> 302, body |-> flash]

\* the handler of POST /submit, run without interruption
Submit(form_company, form, includes_gst) ==
    LET company == strip(form_company)
        order_lines == parse_form(form, includes_gst)
        fp == fingerprint(company, order_lines)
    IN  /\ live_rows(sheet) + Len(form) <= MaxSubmitRows
        /\ IF ~sheets THEN
              /\ response' = Redirect("Sheets not available")
              /\ UNCHANGED <<sheet, recent, written, last>>
           ELSE IF company = E THEN
              /\ response' = Redirect("Company required")
              /\ UNCHANGED <<sheet, recent, written, last>>
           ELSE IF order_lines = << >> THEN
              /\ response' = Redirect("No valid order items")
              /\ UNCHANGED <<sheet, recent, written, last>>
           ELSE IF is_duplicate(recent, fp, now) THEN
              /\ response' = Redirect("")
              /\ UNCHANGED <<sheet, recent, written, last>>
           ELSE
              /\ recent' = deque_append(recent, <<now, fp>>)
              /\ sheet' = write_lines(sheet, company, order_lines)
              /\ written' = Append(written, <<now, fp>>)
              /\ last' = [op |-> "submit", row |-> 0, pre |-> << >>, args |-> fp]
              /\ response' = Redirect("orders added successfully")
        /\ dropped' = IF sheets /\ company # E /\ order_lines # << >>
                          /\ is_duplicate(recent, fp, now)
                       THEN <<now, fp>> ELSE dropped
        /\ UNCHANGED <<dispatch, cache, now, undo, rate, sheets, reqs, call,
                       limited, admitted>>

SubmitAdvance ==
    /\ now + SubmitTick <= MaxSubmitNow
    /\ now' = now + SubmitTick
    /\ UNCHANGED <<sheet, dispatch, cache, last, undo, recent, rate, sheets, response,
                   reqs, call, limited, admitted, written, dropped>>

NextSubmit ==
    \/ \E c \in FormCompanies, f \in Forms, g \in BOOLEAN : Submit(c, f, g)
    \/ SubmitAdvance

SpecSubmit == Init /\ [][NextSubmit]_vars


\* C3 as stated: of two /submit requests with the same company and the same
\* multiset of lines made less than DEDUP_WINDOW seconds apart, only one writes
\* orders, whatever was submitted in between.
C3_OnlyOneWithinWindow ==
    \A i \in DOMAIN written : \A j \in DOMAIN written :
        (i < j /\ written[i][2] = written[j][2]) =>
            written[j][1] - written[i][1] >= DEDUP_WINDOW

\* C3 as amended: two such requests both write orders only when at least maxlen
\* other submissions were recorded between them; and a submission is dropped as a
\* repeat only when one with its fingerprint wrote orders less than DEDUP_WINDOW
\* seconds before it, so a repeat made after the window writes again.
C3_OnlyOneWithinHistory ==
    /\ \A i \in DOMAIN written : \A j \in DOMAIN written :
          (i < j /\ written[i][2] = written[j][2]
                 /\ written[j][1] - written[i][1] < DEDUP_WINDOW) =>
              j - i - 1 >= RecentMaxLen
    /\ dropped # << >> =>
          \E i \in DOMAIN written :
              /\ written[i][2] = dropped[2]
              /\ written[i][1] <= dropped[1]
              /\ dropped[1] - written[i][1] < DEDUP_WINDOW

\* C3 witness: a submission wrote, its repeat within the window was dropped, and
\* its repeat after the window wrote again
C3_Witness ==
    /\ dropped # << >>
    /\ \E i \in DOMAIN written : \E j \in DOMAIN written :
          /\ i < j
          /\ written[i][2] = dropped[2]
          /\ written[j][2] = dropped[2]
          /\ written[i][1] < dropped[1]
          /\ dropped[1] < written[j][1]
          /\ Len(dropped[2][2]) = 2


-----------------------------------------------------------------------------
(* POST /submit, requests running interleaved: each read of the sheet and each
   write to it is one step *)

MaxRequests == 2    \* requests in flight

\* the request arrives: the form is checked and order_lines is built
Arrive(form_company, form, includes_gst) ==
    LET company == strip(form_company)
        order_lines == parse_form(form, includes_gst)
        valid == sheets /\ company # E /\ order_lines # << >>
    IN  /\ Len(reqs) < MaxRequests
        /\ reqs' = Append(reqs, [pc |-> IF valid THEN "dedup" ELSE "done",
                                 company |-> company,
                                 lines |-> IF valid THEN order_lines ELSE << >>,
                                 k |-> 1, target |-> 0])
        /\ UNCHANGED <<sheet, dispatch, cache, now, last, undo, recent, rate, sheets,
                       response, call, limited, admitted, written, dropped>>

\* the de-duplication of request i
Dedup(i) ==
    LET r == reqs[i]
        fp == fingerprint(r.company, r.lines)
    IN  /\ r.pc = "dedup"
        /\ IF is_duplicate(recent, fp, now)
           THEN /\ reqs' = [reqs EXCEPT ![i].pc = "done", ![i].lines = << >>]
                /\ dropped' = <<now, fp>>
                /\ UNCHANGED <<recent, written>>
           ELSE /\ reqs' = [reqs EXCEPT ![i].pc = "read"]
                /\ recent' = deque_append(recent, <<now, fp>>)
                /\ written' = Append(written, <<now, fp>>)
                /\ UNCHANGED dropped
        /\ UNCHANGED <<sheet, dispatch, cache, now, last, undo, rate, sheets,
                       response, call, limited, admitted>>

\* add_order of request i, first half: sheet.get_all_values() and the choice of
\* target_row
AddOrderRead(i) ==
    /\ reqs[i].pc = "read"
    /\ reqs' = [reqs EXCEPT ![i].pc = "write",
                            ![i].target = first_blank_date(get_all_values(sheet))]
    /\ UNCHANGED <<sheet, dispatch, cache, now, last, undo, recent, rate, sheets,
                   response, call, limited, admitted, written, dropped>>

\* add_order of request i, second half: sheet.update of the row chosen; then the
\* next line, or the redirect
AddOrderWrite(i) ==
    LET r == reqs[i]
        line == r.lines[r.k]
    IN  /\ r.pc = "write"
        /\ sheet' = add_order_write(sheet, r.target, r.company, line[1], line[3],
                                    price_text(line[4]), line[2])
        /\ reqs' = [reqs EXCEPT ![i].k = r.k + 1,
                                ![i].pc = IF r.k < Len(r.lines) THEN "read" ELSE "done"]
        /\ last' = [op |-> "submit", row |-> r.target, pre |-> << >>, args |-> << >>]
        /\ response' = IF r.k < Len(r.lines) THEN response
                       ELSE Redirect("orders added successfully")
        /\ UNCHANGED <<dispatch, cache, now, undo, recent, rate, sheets,
                       call, limited, admitted, written, dropped>>

NextConc ==
    \/ \E c \in FormCompanies, f \in Forms, g \in BOOLEAN : Arrive(c, f, g)
    \/ \E i \in DOMAIN reqs : Dedup(i)
    \/ \E i \in DOMAIN reqs : AddOrderRead(i)
    \/ \E i \in DOMAIN reqs : AddOrderWrite(i)

SpecConc == Init /\ [][NextConc]_vars

\* the cells B..G that add_order writes for a line of a request
line_cells(company, line) ==
    order_cells(Today, company, line[1], line[2], number_text(line[3]), price_text(line[4]))

\* how many lines of the requests ask for these cells
lines_asking(cells) ==
    Cardinality({ik \in UNION {{<<i, k>> : k \in 1..Len(reqs[i].lines)} : i \in DOMAIN reqs} :
                    line_cells(reqs[ik[1]].company, reqs[ik[1]].lines[ik[2]]) = cells})

\* how many rows of the sheet hold these cells
rows_holding(cells) ==
    Cardinality({j \in DOMAIN sheet : row_fields(sheet[j]) = cells})

AllDone == reqs # << >> /\ \A i \in DOMAIN reqs : reqs[i].pc = "done"

\* C8: when the interleaved /submit requests have ended, every order line of every
\* request that passed the de-duplication is held by a row of its own.
C8_NoLineLost ==
    AllDone =>
        \A i \in DOMAIN reqs : \A k \in 1..Len(reqs[i].lines) :
            LET cells == line_cells(reqs[i].company, reqs[i].lines[k])
            IN  rows_holding(cells) = lines_asking(cells)


-----------------------------------------------------------------------------
(* Calls to the external store that fail transiently *)

retries == 3
MaxFails == 3       \* a call to the store fails at most this many times in a row

\* SheetsClient._retry(fn) from attempt i + 1 on, fn failing on its first "fails"
\* calls: the attempts made and how the loop ends
RECURSIVE retry_loop(_, _, _)
retry_loop(i, fails, n) ==
    IF i >= n THEN [attempts |-> i, outcome |-> "returned"]
    ELSE IF i >= fails THEN [attempts |-> i + 1, outcome |-> "returned"]
    ELSE IF i = n - 1 THEN [attempts |-> i + 1, outcome |-> "raised"]
    ELSE retry_loop(i + 1, fails, n)

\* SheetsClient._retry(fn)
retry(fails) == retry_loop(0, fails, retries)

\* a store call as the methods of SheetsClient make it: the gspread method is
\* called once, and what it raises leaves the method
direct_call(fails) ==
    [attempts |-> 1, outcome |-> IF fails = 0 THEN "returned" ELSE "raised"]

Called(op, fails) == [op |-> op, fails |-> fails] @@ direct_call(fails)

\* add_dispatch, its append_row failing "fails" times in a row
StoreAppendDispatch(company, product, quantity, order_number, fails) ==
    /\ Len(dispatch) < MaxDispatch
    /\ call' = Called("append_row", fails)
    /\ IF direct_call(fails).outcome = "returned"
       THEN /\ dispatch' = add_dispatch(dispatch, company, product, quantity, order_number)
            /\ cache' = invalidate_cache(cache)
       ELSE UNCHANGED <<dispatch, cache>>
    /\ UNCHANGED <<sheet, now, last, undo, recent, rate, sheets, response, reqs,
                   limited, admitted, written, dropped>>

\* add_order, its get_all_values failing "fails" times in a row
StoreWriteOrder(company, product, quantity, price, brand, fails) ==
    /\ first_blank_date(get_all_values(sheet)) <= MaxRows
    /\ call' = Called("add_order", fails)
    /\ IF direct_call(fails).outcome = "returned"
       THEN sheet' = add_order(sheet, company, product, quantity, price, brand)
       ELSE UNCHANGED sheet
    /\ UNCHANGED <<dispatch, cache, now, last, undo, recent, rate, sheets, response,
                   reqs, limited, admitted, written, dropped>>

\* a read of the order rows through _cached, the get_all_values it may make
\* failing "fails" times in a row
StoreReadOrders(fails) ==
    /\ IF cache_hit(cache, "orders_rows", now)
       THEN UNCHANGED <<call, cache>>
       ELSE /\ call' = Called("get_all_values", fails)
            /\ IF direct_call(fails).outcome = "returned"
               THEN cache' = cached_store(cache, "orders_rows", now, get_all_values(sheet))
               ELSE UNCHANGED cache
    /\ UNCHANGED <<sheet, dispatch, now, last, undo, recent, rate, sheets, response,
                   reqs, limited, admitted, written, dropped>>

NextStore ==
    \/ \E c \in Companies, p \in DispatchProducts, q \in DispatchQuantities,
          n \in Serials, f \in 0..MaxFails : StoreAppendDispatch(c, p, q, n, f)
    \/ \E c \in Companies, p \in Products, q \in Quantities, pr \in Prices,
          b \in Brands, f \in 0..MaxFails : StoreWriteOrder(c, p, q, pr, b, f)
    \/ \E f \in 0..MaxFails : StoreReadOrders(f)
    \/ Tick

SpecStore == Init /\ [][NextStore]_vars

\* C9: a call to the store that fails transiently is made again, up to "retries"
\* attempts in all: it returns at the first attempt that succeeds, and raises only
\* when the last attempt has failed.
C9_StoreCallsRetried ==
    call.op # "none" =>
        /\ call.attempts = retry(call.fails).attempts
        /\ call.outcome = retry(call.fails).outcome


-----------------------------------------------------------------------------
(* The HTTP handlers of app.py, each run without interruption *)

Data == <<sheet, dispatch, undo, last>>
Submissions == <<recent, written, dropped>>
Limiter == <<rate, limited, admitted>>
Process == <<now, sheets, reqs, call>>

Respond(endpoint, status, body) ==
    response' = [endpoint |-> endpoint, status |-> status, body |-> body]

\* what Flask answers when the handler raises: no handler of app.py catches it
Unhandled(endpoint) == Respond(endpoint, 500, "unhandled exception")

\* a handler that reads the order rows through the cache when sheets is there
ReadsOrders == cache' = IF sheets
                        THEN cached_store(cache, "orders_rows", now, get_all_values(sheet))
                        ELSE cache

\* the call of rate_limited("pivot") that opens a handler
Limit == /\ rate' = rate_after(rate, "pivot", now)
         /\ limited' = [key |-> "pivot", t |-> now,
                        result |-> rate_limited(rate, "pivot", now)]
         /\ admitted' = IF rate_limited(rate, "pivot", now) THEN admitted
                        ELSE ("pivot" :> Append(dict_get(admitted, "pivot", << >>), now))
                                @@ admitted

\* GET /orders
Orders ==
    /\ IF ~sheets THEN Respond("/orders", 200, "error page")
       ELSE Respond("/orders", 200, "orders page")
    /\ UNCHANGED <<Data, cache, Submissions, Limiter, Process>>

\* GET /_health
Health ==
    /\ Respond("/_health", 200, IF sheets THEN "initialized" ELSE "not initialized")
    /\ UNCHANGED <<Data, cache, Submissions, Limiter, Process>>

\* GET /
Index ==
    /\ IF ~sheets THEN Respond("/", 200, "error page")
       ELSE Respond("/", 200, "index page")
    /\ ReadsOrders
    /\ UNCHANGED <<Data, Submissions, Limiter, Process>>

\* GET /api/products
ApiProducts ==
    /\ Respond("/api/products", 200, IF sheets THEN "products" ELSE "empty")
    /\ UNCHANGED <<Data, cache, Submissions, Limiter, Process>>

\* GET /api/companies
ApiCompanies ==
    /\ Respond("/api/companies", 200, IF sheets THEN "companies" ELSE "empty")
    /\ UNCHANGED <<Data, cache, Submissions, Limiter, Process>>

\* GET /api/orders_by_product
ApiOrdersByProduct ==
    /\ Limit
    /\ IF rate_limited(rate, "pivot", now)
       THEN Respond("/api/orders_by_product", 429, "error") /\ UNCHANGED cache
       ELSE Respond("/api/orders_by_product", 200, IF sheets THEN "orders" ELSE "empty")
            /\ ReadsOrders
    /\ UNCHANGED <<Data, Submissions, Process>>

\* GET /api/orders_by_party
ApiOrdersByParty ==
    /\ Limit
    /\ IF rate_limited(rate, "pivot", now)
       THEN Respond("/api/orders_by_party", 429, "error") /\ UNCHANGED cache
       ELSE Respond("/api/orders_by_party", 200, IF sheets THEN "orders" ELSE "empty")
            /\ ReadsOrders
    /\ UNCHANGED <<Data, Submissions, Process>>

\* GET /api/pivot_data
ApiPivotData ==
    /\ Limit
    /\ IF rate_limited(rate, "pivot", now)
       THEN Respond("/api/pivot_data", 429, "error") /\ UNCHANGED cache
       ELSE Respond("/api/pivot_data", 200, IF sheets THEN "pivot" ELSE "empty")
            /\ ReadsOrders
    /\ UNCHANGED <<Data, Submissions, Process>>

\* GET /dispatch
DispatchPage ==
    /\ Respond("/dispatch", 200, "dispatch page")
    /\ UNCHANGED <<Data, cache, Submissions, Limiter, Process>>

\* one turn of the loop of save_dispatch: the dispatch sheet it leaves
save_one(rows, d) ==
    IF strip(d.order_number) = E \/ strip(d.product) = E \/ d.quantity <= 0 THEN rows
    ELSE add_dispatch(rows, strip(d.company), strip(d.product), d.quantity,
                      strip(d.order_number))

RECURSIVE save_all(_, _)
save_all(rows, ds) == IF ds = << >> THEN rows ELSE save_all(save_one(rows, Head(ds)), Tail(ds))

DispatchItems ==
    {[company |-> c, product |-> p, quantity |-> q, order_number |-> n] :
        c \in Companies, p \in DispatchProducts, q \in {0} \cup DispatchQuantities,
        n \in Serials}

\* POST /dispatch/save with the payload {"dispatches": ds}
SaveDispatch(ds) ==
    /\ Len(dispatch) + Len(ds) <= MaxDispatch
    /\ IF ~sheets
       THEN Respond("/dispatch/save", 500, "error") /\ UNCHANGED <<dispatch, cache>>
       ELSE IF save_all(dispatch, ds) = dispatch
       THEN Respond("/dispatch/save", 400, "error") /\ UNCHANGED <<dispatch, cache>>
       ELSE /\ Respond("/dispatch/save", 200, "rows written")
            /\ dispatch' = save_all(dispatch, ds)
            /\ cache' = invalidate_cache(cache)
    /\ UNCHANGED <<sheet, undo, last, Submissions, Limiter, Process>>

\* GET /api/parties_with_pending
PartiesWithPending ==
    /\ Respond("/api/parties_with_pending", 200, IF sheets THEN "companies" ELSE "empty")
    /\ ReadsOrders
    /\ UNCHANGED <<Data, Submissions, Limiter, Process>>

\* GET /api/products_with_pending
ProductsWithPending ==
    /\ Respond("/api/products_with_pending", 200, IF sheets THEN "products" ELSE "empty")
    /\ ReadsOrders
    /\ UNCHANGED <<Data, Submissions, Limiter, Process>>

\* GET /api/recent_orders
ApiRecentOrders ==
    /\ Respond("/api/recent_orders", 200, IF sheets THEN "orders" ELSE "empty")
    /\ ReadsOrders
    /\ UNCHANGED <<Data, Submissions, Limiter, Process>>

\* POST /api/update_order: sheets.update_order_row is looked up with no test of
\* sheets, and None has no such attribute
ApiUpdateOrder(row, product, brand, quantity, price) ==
    /\ IF ~sheets
       THEN Unhandled("/api/update_order") /\ UNCHANGED <<sheet, cache, last>>
       ELSE /\ Respond("/api/update_order", 200, "ok")
            /\ sheet' = update_order_row(sheet, row, product, brand, quantity, price)
            /\ cache' = invalidate_cache(cache)
            /\ last' = [op |-> "update_order_row", row |-> row, pre |-> << >>,
                        args |-> << >>]
    /\ UNCHANGED <<dispatch, undo, Submissions, Limiter, Process>>

\* POST /api/delete_order
ApiDeleteOrder(row) ==
    /\ IF ~sheets
       THEN Unhandled("/api/delete_order") /\ UNCHANGED <<sheet, cache, last, undo>>
       ELSE /\ row <= Len(sheet)
            /\ Respond("/api/delete_order", 200, "ok")
            /\ sheet' = delete_order_row(sheet, row)
            /\ cache' = invalidate_cache(cache)
            /\ undo' = [row |-> row, data |-> row_fields(sheet[row])]
            /\ last' = [op |-> "delete_order_row", row |-> row, pre |-> sheet,
                        args |-> << >>]
    /\ UNCHANGED <<dispatch, Submissions, Limiter, Process>>

\* POST /api/undo_delete_order
ApiUndoDeleteOrder(row, data) ==
    /\ IF ~sheets
       THEN Unhandled("/api/undo_delete_order") /\ UNCHANGED <<sheet, cache, last>>
       ELSE /\ Respond("/api/undo_delete_order", 200, "ok")
            /\ sheet' = restore_order_row(sheet, row, data)
            /\ cache' = invalidate_cache(cache)
            /\ last' = [op |-> "restore_order_row", row |-> row, pre |-> sheet,
                        args |-> << >>]
    /\ UNCHANGED <<dispatch, undo, Submissions, Limiter, Process>>

\* the module-level try of app.py: SheetsClient() raised, sheets is None
InitNoSheets ==
    /\ sheet = [i \in 1..SerialRows |-> [serial |-> number_text(i)] @@ BlankFields]
    /\ dispatch = << >>
    /\ cache = NoCache
    /\ now = 0
    /\ last = [op |-> "init", row |-> 0, pre |-> << >>, args |-> << >>]
    /\ undo = NoUndo
    /\ recent = << >>
    /\ rate = [k \in {} |-> << >>]
    /\ sheets = FALSE
    /\ response = [endpoint |-> "none", status |-> 0, body |-> "none"]
    /\ reqs = << >>
    /\ call = [op |-> "none", fails |-> 0, attempts |-> 0, outcome |-> "none"]
    /\ limited = [key |-> "none", t |-> 0, result |-> FALSE]
    /\ admitted = [k \in {} |-> << >>]
    /\ written = << >>
    /\ dropped = << >>

NextApp ==
    \/ Orders
    \/ Health
    \/ Index
    \/ \E c \in FormCompanies, f \in Forms, g \in BOOLEAN : Submit(c, f, g)
    \/ ApiProducts
    \/ ApiCompanies
    \/ ApiOrdersByProduct
    \/ ApiOrdersByParty
    \/ ApiPivotData
    \/ DispatchPage
    \/ \E d \in DispatchItems : SaveDispatch(<<d>>)
    \/ PartiesWithPending
    \/ ProductsWithPending
    \/ ApiRecentOrders
    \/ \E r \in RowNumbers, p \in Products, b \in Brands, q \in Quantities, pr \in Prices :
          ApiUpdateOrder(r, p, b, q, pr)
    \/ \E r \in RowNumbers : ApiDeleteOrder(r)
    \/ \E r \in RowNumbers : ApiUndoDeleteOrder(r, BlankFields)
    \/ RateAdvance

SpecNoSheets == InitNoSheets /\ [][NextApp]_vars

\* C7: with sheets None, every handler answers with an empty or an error response
\* and none of them raises.
C7_NoHandlerRaises ==
    ~sheets => response.body # "unhandled exception"


-----------------------------------------------------------------------------
(* Orders added into rows that held other orders *)

\* the entry get_orders_by_party gives, on a fresh read of the sheet, for the
\* order row i asked with the row's own company; << >> when it has none
FreshPartyEntry(i) ==
    LET rows == get_all_values(sheet)
    IN  IF i <= Len(rows) THEN party_entry(rows[i], DispatchNow, rows[i].company) ELSE << >>

\* C11: right after add_order has written an order of quantity q, with no dispatch
\* recorded since, the order is reconciled with dispatched 0 and remaining q,
\* whatever dispatch rows were recorded before it was added.
C11_NewOrderFullyPending ==
    last.op = "add_order" =>
        /\ FreshPartyEntry(last.row) # << >>
        /\ FreshPartyEntry(last.row)[1].dispatched = 0
        /\ FreshPartyEntry(last.row)[1].remaining = number_value(last.args.quantity)

\* the live rows of the sheet "before" that the sheet "after" no longer holds with
\* the same fields
lost_rows(before, after) ==
    {j \in DOMAIN before :
        /\ is_live(before[j])
        /\ ~(j \in DOMAIN after /\ row_fields(after[j]) = row_fields(before[j]))}

\* the restore just made brought back a live order: the snapshot kept at the
\* matching delete was that of a row with a date
RestoredLiveOrder ==
    /\ last.op = "restore_order_row"
    /\ last.row \in DOMAIN sheet
    /\ is_live(sheet[last.row])

\* C12: an add_order, or a restore_order_row made with the snapshot of a live
\* order kept at the matching delete, loses no live order, and the restore writes
\* only into a row whose date is blank.
C12_NoLiveOrderLost ==
    /\ last.op = "add_order" => lost_rows(last.pre, sheet) = {}
    /\ RestoredLiveOrder =>
          /\ lost_rows(last.pre, sheet) = {}
          /\ last.row \in DOMAIN last.pre => ~is_live(last.pre[last.row])

=============================================================================
